---- MODULE Spec2Model ----
(***************************************************************************)
(* The calendar assistant: the event store (mock_calendar.py), the five    *)
(* calendar tool functions (tools.py) and the tool-calling loop            *)
(* process_chat (groq_client.py).                                          *)
(*                                                                         *)
(* Python strings the code parses, formats or compares are sequences of    *)
(* one-character strings, so that strptime, strftime, str.upper,           *)
(* str.replace and int() are computed and not assumed.  A dict is a        *)
(* sequence of entries in insertion order, as Python dicts iterate.        *)
(***************************************************************************)
EXTENDS Integers, Sequences, FiniteSets, TLC

VARIABLES
  calendar,      \* the session's calendar dict
  result,        \* what the last tool function returned
  last,          \* the last tool function called and its arguments
  created,       \* the ids the successful create_event calls allocated
  chat_history,  \* the message list of the chat session
  pc,            \* where process_chat stands
  iteration,     \* completed iterations of the loop of process_chat
  pending,       \* the tool calls of the response not yet executed
  reply,         \* what process_chat returned
  model_calls,   \* calls of client.chat.completions.create in this turn
  executed,      \* the ids of the tool calls executed in this turn
  scripted,      \* responses the model has chosen freely in this session
  collection,    \* the documents of db["events"], the persisted events
  deleted,       \* the ids the successful delete_event calls removed
  default_calendar,  \* the dict the module binds to DEFAULT_CALENDAR
  session_state  \* the session: whether it has a calendar, whether that
                 \* dict is the module's own object, where it came from

vars == <<calendar, result, last, created, chat_history, pc, iteration,
          pending, reply, model_calls, executed, scripted, collection,
          deleted, default_calendar, session_state>>

storeVars == <<calendar, result, last, created, collection, deleted,
               default_calendar, session_state>>

chatVars == <<chat_history, pc, iteration, pending, reply, model_calls,
              executed, scripted>>

---------------------------------------------------------------------------
(* Characters and numbers                                                  *)

Digit == {"0", "1", "2", "3", "4", "5", "6", "7", "8", "9"}

DigitVal(c) ==
  CASE c = "0" -> 0 [] c = "1" -> 1 [] c = "2" -> 2 [] c = "3" -> 3
    [] c = "4" -> 4 [] c = "5" -> 5 [] c = "6" -> 6 [] c = "7" -> 7
    [] c = "8" -> 8 [] c = "9" -> 9

DigitChar(n) ==
  CASE n = 0 -> "0" [] n = 1 -> "1" [] n = 2 -> "2" [] n = 3 -> "3"
    [] n = 4 -> "4" [] n = 5 -> "5" [] n = 6 -> "6" [] n = 7 -> "7"
    [] n = 8 -> "8" [] n = 9 -> "9"

\* code points of the characters that occur in stored times (str comparison)
Ord(c) == IF c \in Digit THEN 48 + DigitVal(c) ELSE IF c = ":" THEN 58 ELSE 0

IsDigits(s) == Len(s) > 0 /\ \A i \in 1..Len(s) : s[i] \in Digit

\* the number the first k digits of s write
RECURSIVE DecValUpTo(_, _)
DecValUpTo(s, k) ==
  IF k = 0 THEN 0 ELSE 10 * DecValUpTo(s, k - 1) + DigitVal(s[k])

DecVal(s) == DecValUpTo(s, Len(s))

RECURSIVE DecStr(_)
DecStr(n) ==
  IF n < 10 THEN <<DigitChar(n)>>
  ELSE DecStr(n \div 10) \o <<DigitChar(n % 10)>>

\* format(n, "02d") and format(n, "03d"): zero-padded to at least w digits
RECURSIVE ZeroPad(_, _)
ZeroPad(s, w) == IF Len(s) >= w THEN s ELSE ZeroPad(<<"0">> \o s, w)

\* a JSON number and a JSON string, as tool arguments
IntArg(n) == [type |-> "int", int |-> n, str |-> <<>>]
StrArg(s) == [type |-> "str", int |-> 0, str |-> s]

\* int(x) on a tool argument: an int is itself, a string of digits is parsed,
\* any other string raises ValueError (ok is FALSE)
IntOf(x) ==
  IF x.type = "int" THEN [ok |-> TRUE, val |-> x.int]
  ELSE IF IsDigits(x.str) THEN [ok |-> TRUE, val |-> DecVal(x.str)]
  ELSE [ok |-> FALSE, val |-> 0]

\* str.split(sep) for a one-character sep: the fields between the places
\* of sep, the two ends of s counting as places
Split(s, sep) ==
  LET places == {0, Len(s) + 1} \cup {i \in 1..Len(s) : s[i] = sep}
      Place(n) == CHOOSE i \in places :
                    Cardinality({j \in places : j < i}) = n
  IN  [n \in 1..(Cardinality(places) - 1) |->
         SubSeq(s, Place(n - 1) + 1, Place(n) - 1)]

\* str.replace(pat, ""): every occurrence of pat removed, left to right
RECURSIVE RemoveAll(_, _)
RemoveAll(s, pat) ==
  IF Len(s) < Len(pat) THEN s
  ELSE IF SubSeq(s, 1, Len(pat)) = pat
       THEN RemoveAll(SubSeq(s, Len(pat) + 1, Len(s)), pat)
       ELSE <<Head(s)>> \o RemoveAll(Tail(s), pat)

UpperChar(c) ==
  CASE c = "e" -> "E" [] c = "v" -> "V" [] c = "t" -> "T" [] OTHER -> c

\* the id looked up as it was given
NotUppered(s) == s

\* str.upper()
Upper(s) == [i \in 1..Len(s) |-> UpperChar(s[i])]

\* str < str, by code point, a proper prefix being smaller
RECURSIVE StrLess(_, _)
StrLess(a, b) ==
  IF b = <<>> THEN FALSE
  ELSE IF a = <<>> THEN TRUE
  ELSE IF Ord(Head(a)) # Ord(Head(b)) THEN Ord(Head(a)) < Ord(Head(b))
  ELSE StrLess(Tail(a), Tail(b))

---------------------------------------------------------------------------
(* datetime.strptime and strftime                                          *)

MinutesPerDay == 1440

ParseError == -1

\* strptime(s, "%H:%M"): %H is 2[0-3]|[0-1]\d|\d and %M is [0-5]\d|\d, the
\* whole string consumed; the time of day in minutes, or ParseError
StrptimeHM(s) ==
  LET f == Split(s, ":")
  IN  IF /\ Len(f) = 2
         /\ IsDigits(f[1]) /\ Len(f[1]) <= 2 /\ DecVal(f[1]) <= 23
         /\ IsDigits(f[2]) /\ Len(f[2]) <= 2 /\ DecVal(f[2]) <= 59
      THEN 60 * DecVal(f[1]) + DecVal(f[2])
      ELSE ParseError

IsLeap(y) == (y % 4 = 0 /\ y % 100 # 0) \/ y % 400 = 0

DaysInMonth(y, m) ==
  IF m = 2 THEN (IF IsLeap(y) THEN 29 ELSE 28)
  ELSE IF m \in {4, 6, 9, 11} THEN 30 ELSE 31

\* strptime(s, "%Y-%m-%d") succeeds: %Y is \d\d\d\d, %m is 1[0-2]|0[1-9]|[1-9],
\* %d is 3[01]|[12]\d|0[1-9]|[1-9], and the date exists
DateParses(s) ==
  LET f == Split(s, "-")
  IN  /\ Len(f) = 3
      /\ IsDigits(f[1]) /\ Len(f[1]) = 4 /\ DecVal(f[1]) >= 1
      /\ IsDigits(f[2]) /\ Len(f[2]) <= 2 /\ DecVal(f[2]) \in 1..12
      /\ IsDigits(f[3]) /\ Len(f[3]) <= 2 /\ DecVal(f[3]) >= 1
      /\ DecVal(f[3]) <= DaysInMonth(DecVal(f[1]), DecVal(f[2]))

\* dt.strftime("%H:%M") of a datetime whose time of day, counted from the
\* midnight of its date, is m minutes (timedelta arithmetic carries the day)
StrftimeHM(m) ==
  LET t == m % MinutesPerDay
  IN  ZeroPad(DecStr(t \div 60), 2) \o <<":">> \o ZeroPad(DecStr(t % 60), 2)

\* dt.strftime("%I:%M %p")
StrftimeIMp(m) ==
  LET t == m % MinutesPerDay
      h == t \div 60
      h12 == IF h % 12 = 0 THEN 12 ELSE h % 12
  IN  ZeroPad(DecStr(h12), 2) \o <<":">> \o ZeroPad(DecStr(t % 60), 2)
        \o <<" ", IF h < 12 THEN "A" ELSE "P", "M">>

---------------------------------------------------------------------------
(* The event store: mock_calendar.py                                       *)

EVT == <<"E", "V", "T">>

EVT001 == <<"E", "V", "T", "0", "0", "1">>
EVT002 == <<"E", "V", "T", "0", "0", "2">>
EVT003 == <<"E", "V", "T", "0", "0", "3">>

D0223 == <<"2", "0", "2", "6", "-", "0", "2", "-", "2", "3">>
D0224 == <<"2", "0", "2", "6", "-", "0", "2", "-", "2", "4">>

T1000 == <<"1", "0", ":", "0", "0">>
T1030 == <<"1", "0", ":", "3", "0">>
T1100 == <<"1", "1", ":", "0", "0">>
T1130 == <<"1", "1", ":", "3", "0">>
T1400 == <<"1", "4", ":", "0", "0">>
T1500 == <<"1", "5", ":", "0", "0">>

\* a dict entry: the key and the fields of its value
Entry(id, title, date, start_time, end_time, description) ==
  [id |-> id, title |-> title, date |-> date, start_time |-> start_time,
   end_time |-> end_time, description |-> description]

DEFAULT_CALENDAR ==
  << Entry(EVT001, "Team Standup", D0223, T1000, T1030, "Daily team sync"),
     Entry(EVT002, "Project Review", D0223, T1400, T1500,
           "Q1 project review meeting"),
     Entry(EVT003, "Client Call", D0224, T1100, T1130,
           "Weekly client update call") >>

Keys(cal) == {cal[i].id : i \in 1..Len(cal)}

\* key in dict
HasKey(cal, id) == \E i \in 1..Len(cal) : cal[i].id = id

IndexOf(cal, id) == CHOOSE i \in 1..Len(cal) : cal[i].id = id

\* dict[key]
Get(cal, id) == cal[IndexOf(cal, id)]

\* dict[key] = value: an existing key keeps its place, a new key goes last
Put(cal, e) ==
  IF HasKey(cal, e.id) THEN [cal EXCEPT ![IndexOf(cal, e.id)] = e]
  ELSE Append(cal, e)

\* dict.pop(key)
Pop(cal, id) == SelectSeq(cal, LAMBDA e : e.id # id)

SetMax(S) == CHOOSE n \in S : \A k \in S : k <= n

\* an allocation that counts the events of the dict
get_next_event_id_by_count(cal) ==
  [ok |-> TRUE, id |-> EVT \o ZeroPad(DecStr(Len(cal) + 1), 3)]

\* get_next_event_id; ok is FALSE where int() raises ValueError
get_next_event_id(cal) ==
  IF cal = <<>> THEN [ok |-> TRUE, id |-> EVT001]
  ELSE LET nums == {RemoveAll(k, EVT) : k \in Keys(cal)}
       IN  IF \E s \in nums : ~IsDigits(s) THEN [ok |-> FALSE, id |-> <<>>]
           ELSE LET max_num == SetMax({DecVal(s) : s \in nums})
                IN  [ok |-> TRUE, id |-> EVT \o ZeroPad(DecStr(max_num + 1), 3)]

\* the documents of a dict, one per key
Documents(cal) == {cal[i] : i \in 1..Len(cal)}

\* __seed_db: every event of the dict upserted by its event_id
_seed_db(docs, cal) ==
  {d \in docs : d.id \notin Keys(cal)} \cup Documents(cal)

\* sync_to_db on a connected database: the documents whose event_id left
\* the dict are deleted, every event of the dict is upserted
sync_to_db(docs, cal) ==
  LET db_ids == {d.id : d \in docs}
      mem_ids == Keys(cal)
      removed == db_ids \ mem_ids
      kept == {d \in docs : d.id \notin removed}
  IN  {d \in kept : d.id \notin mem_ids} \cup Documents(cal)

\* _load_from_db: None when the database is unavailable or the read fails,
\* otherwise the dict built from the documents in the order find() gives
\* them, which is the order of their ids here
_load_from_db(docs, available) ==
  IF ~available THEN [none |-> TRUE, events |-> <<>>]
  ELSE [none |-> FALSE,
        events |->
          [p \in 1..Cardinality(docs) |->
             CHOOSE d \in docs :
               Cardinality({o \in docs : StrLess(o.id, d.id)}) = p - 1]]

\* the dict handed over as it is: the same object
reference(obj) == [value |-> obj, same_object |-> TRUE]

\* copy.deepcopy: an equal dict that is a new object
deepcopy(obj) == [value |-> obj, same_object |-> FALSE]

\* a session_state: has_calendar is "calendar" in session_state
Session(has_calendar, is_default, set_from) ==
  [has_calendar |-> has_calendar, same_object |-> is_default,
   set_from |-> set_from]

\* the session_state of a session that begins
NoSession == Session(FALSE, FALSE, "nothing")

\* init_calendar: the session_state and the calendar it returns, and
\* whether it called _seed_db
init_calendar(session, cal, default, db_data) ==
  IF session.has_calendar
  THEN [session |-> [session EXCEPT !.set_from = "session_state"],
        calendar |-> cal, seeded |-> FALSE]
  ELSE IF ~db_data.none /\ Len(db_data.events) > 0
  THEN [session |-> Session(TRUE, FALSE, "db_data"),
        calendar |-> db_data.events, seeded |-> FALSE]
  ELSE LET copy == deepcopy(default)
       IN  [session |-> Session(TRUE, copy.same_object, "deepcopy"),
            calendar |-> copy.value, seeded |-> TRUE]

---------------------------------------------------------------------------
(* The tool functions: tools.py.  Each returns the dict as it leaves it    *)
(* and the returned text, kept as the values the text is formatted from.   *)

NoText == <<>>

Result(kind, id, title, date, start, end) ==
  [kind |-> kind, id |-> id, title |-> title, date |-> date,
   start |-> start, end |-> end,
   old_date |-> NoText, old_start |-> NoText, old_end |-> NoText,
   items |-> <<>>]

Failure(kind) == Result(kind, NoText, "", NoText, NoText, NoText)

NoResult == Failure("none")

\* one line "[eid] title - start to end" of a listing
Line(e, start_m, end_m) ==
  [id |-> e.id, title |-> e.title,
   start |-> StrftimeIMp(start_m), end |-> StrftimeIMp(end_m)]

create_event(cal, title, date, time, duration_minutes, description) ==
  LET start == StrptimeHM(time)
      dur == IntOf(duration_minutes)
      next == get_next_event_id(cal)
  IN  IF ~DateParses(date) \/ start = ParseError \/ ~dur.ok \/ ~next.ok
      THEN [calendar |-> cal, result |-> Failure("Error creating event")]
      ELSE LET end == start + dur.val
               e == Entry(next.id, title, date, StrftimeHM(start),
                          StrftimeHM(end), description)
           IN  [calendar |-> Put(cal, e),
                result |-> Result("Event created successfully!", next.id, title,
                                  date, StrftimeIMp(start), StrftimeIMp(end))]

\* the events left in the order of the dict
InsertionOrder(s) == s

\* list.sort(key=start_time): the sort is stable, so an entry goes behind
\* the entries with a smaller key and the earlier entries with an equal key
SortByStart(s) ==
  LET Before(i) ==
        {j \in 1..Len(s) :
           \/ StrLess(s[j].start_time, s[i].start_time)
           \/ s[j].start_time = s[i].start_time /\ j < i}
  IN  [p \in 1..Len(s) |->
         s[CHOOSE i \in 1..Len(s) : Cardinality(Before(i)) = p - 1]]

\* a listing that takes the events of the date out of the dict
list_events_popping(cal, date) ==
  [calendar |-> SelectSeq(cal, LAMBDA e : e.date # date),
   result |-> Result("No events found", NoText, "", date, NoText, NoText)]

list_events(cal, date) ==
  LET events == SortByStart(SelectSeq(cal, LAMBDA e : e.date = date))
  IN  IF events = <<>>
      THEN [calendar |-> cal,
            result |-> Result("No events found", NoText, "", date, NoText, NoText)]
      ELSE IF \E i \in 1..Len(events) :
                 \/ StrptimeHM(events[i].start_time) = ParseError
                 \/ StrptimeHM(events[i].end_time) = ParseError
      THEN [calendar |-> cal, result |-> Failure("Error listing events")]
      ELSE [calendar |-> cal,
            result |->
              [Result("Events on", NoText, "", date, NoText, NoText)
                 EXCEPT !.items =
                   [i \in 1..Len(events) |->
                      Line(events[i], StrptimeHM(events[i].start_time),
                           StrptimeHM(events[i].end_time))]]]

\* an overlap test that counts intervals meeting at an endpoint
OverlapsTouching(req_start, req_end, evt_start, evt_end) ==
  req_start <= evt_end /\ evt_start <= req_end

\* the overlap test of check_availability, on minutes counted from the
\* midnight of the requested date
Overlaps(req_start, req_end, evt_start, evt_end) ==
  req_start < evt_end /\ evt_start < req_end

check_availability(cal, date, time, duration_minutes) ==
  LET req_start == StrptimeHM(time)
      dur == IntOf(duration_minutes)
      req_end == req_start + dur.val
      same == SelectSeq(cal, LAMBDA e : e.date = date)
      conflicts ==
        SelectSeq(same, LAMBDA e :
          Overlaps(req_start, req_end,
                   StrptimeHM(e.start_time), StrptimeHM(e.end_time)))
  IN  IF \/ ~DateParses(date) \/ req_start = ParseError \/ ~dur.ok
         \/ \E i \in 1..Len(same) :
              \/ StrptimeHM(same[i].start_time) = ParseError
              \/ StrptimeHM(same[i].end_time) = ParseError
      THEN [calendar |-> cal, result |-> Failure("Error checking availability")]
      ELSE IF conflicts = <<>>
      THEN [calendar |-> cal,
            result |-> Result("available", NoText, "", date,
                              StrftimeIMp(req_start), StrftimeIMp(req_end))]
      ELSE [calendar |-> cal,
            result |->
              [Result("busy", NoText, "", date, NoText, NoText)
                 EXCEPT !.items =
                   [i \in 1..Len(conflicts) |->
                      Line(conflicts[i], StrptimeHM(conflicts[i].start_time),
                           StrptimeHM(conflicts[i].end_time))]]]

\* a missing id reported as cancelled
ReportedCancelled(event_id) ==
  Result("Event cancelled successfully!", event_id, "", NoText, NoText, NoText)

NotFound(event_id) ==
  Result("not found", event_id, "", NoText, NoText, NoText)

\* a change of date that rebuilds the event at the midnight of the new date
SetDateAtMidnight(evt, new_date) ==
  [evt EXCEPT !.date = new_date, !.start_time = StrftimeHM(0)]

\* evt["date"] = new_date
SetDate(evt, new_date) == [evt EXCEPT !.date = new_date]

\* the event rebuilt around the new times, its description left out
SetTimesOnBareEvent(evt, new_start_dt, duration) ==
  [evt EXCEPT !.start_time = StrftimeHM(new_start_dt),
              !.end_time = StrftimeHM(new_start_dt + duration),
              !.description = ""]

\* evt["start_time"] and evt["end_time"] set from the new start and the
\* duration the event had
SetTimes(evt, new_start_dt, duration) ==
  [evt EXCEPT !.start_time = StrftimeHM(new_start_dt),
              !.end_time = StrftimeHM(new_start_dt + duration)]

update_event(cal, event_id_arg, new_date, new_time) ==
  LET event_id == Upper(event_id_arg)
  IN  IF ~HasKey(cal, event_id)
      THEN [calendar |-> cal, result |-> NotFound(event_id)]
      ELSE
        LET evt == Get(cal, event_id)
            old_start == StrptimeHM(evt.start_time)
            old_end == StrptimeHM(evt.end_time)
            duration == old_end - old_start
            dated == IF new_date # NoText
                     THEN Put(cal, SetDate(evt, new_date)) ELSE cal
            new_start == StrptimeHM(new_time)
            timed == IF new_time # NoText
                     THEN Put(dated, SetTimes(Get(dated, event_id), new_start,
                                              duration))
                     ELSE dated
            now == Get(timed, event_id)
        IN  IF old_start = ParseError \/ old_end = ParseError
            THEN [calendar |-> cal, result |-> Failure("Error updating event")]
            ELSE IF new_time # NoText /\ new_start = ParseError
            THEN [calendar |-> dated, result |-> Failure("Error updating event")]
            ELSE [calendar |-> timed,
                  result |->
                    [Result("updated", event_id, evt.title, now.date,
                            StrftimeIMp(StrptimeHM(now.start_time)),
                            StrftimeIMp(StrptimeHM(now.end_time)))
                       EXCEPT !.old_date = evt.date,
                              !.old_start = StrftimeIMp(old_start),
                              !.old_end = StrftimeIMp(old_end)]]

delete_event(cal, event_id_arg) ==
  LET event_id == Upper(event_id_arg)
  IN  IF ~HasKey(cal, event_id)
      THEN [calendar |-> cal, result |-> NotFound(event_id)]
      ELSE
        LET evt == Get(cal, event_id)
        IN  IF \/ StrptimeHM(evt.start_time) = ParseError
               \/ StrptimeHM(evt.end_time) = ParseError
            THEN [calendar |-> Pop(cal, event_id),
                  result |-> Failure("Error deleting event")]
            ELSE [calendar |-> Pop(cal, event_id),
                  result |-> Result("Event cancelled successfully!", event_id,
                                    evt.title, evt.date,
                                    StrftimeIMp(StrptimeHM(evt.start_time)),
                                    StrftimeIMp(StrptimeHM(evt.end_time)))]

---------------------------------------------------------------------------
(* Arguments the operations are called with                                *)

EVT004 == <<"E", "V", "T", "0", "0", "4">>
EVT009 == <<"E", "V", "T", "0", "0", "9">>
evt004 == <<"e", "v", "t", "0", "0", "4">>

\* no 30 February: the text matches the format and the date does not exist
D0230 == <<"2", "0", "2", "6", "-", "0", "2", "-", "3", "0">>

T0930 == <<"0", "9", ":", "3", "0">>
T1015 == <<"1", "0", ":", "1", "5">>
T2330 == <<"2", "3", ":", "3", "0">>
T2500 == <<"2", "5", ":", "0", "0">>
\* one-digit hour and minute: strptime accepts them
T9_5 == <<"9", ":", "5">>

NotANumber == StrArg(<<"a", "b", "c">>)

Args(event_id, date, time, duration_minutes) ==
  [event_id |-> event_id, date |-> date, time |-> time,
   duration_minutes |-> duration_minutes]

NoDuration == IntArg(0)

CreateArgs ==
  { Args(NoText, D0223, T0930, IntArg(120)),
    Args(NoText, D0223, T2330, IntArg(120)),
    Args(NoText, D0223, T0930, IntArg(0)),
    Args(NoText, D0223, T0930, IntArg(-30)),
    Args(NoText, D0230, T0930, IntArg(30)),
    Args(NoText, D0223, T2500, IntArg(30)),
    Args(NoText, D0223, T0930, NotANumber) }

\* update_event(event_id, new_date, new_time)
UpdateArgs ==
  { Args(EVT001, D0224, NoText, NoDuration),
    Args(EVT001, NoText, T2330, NoDuration),
    Args(EVT001, D0230, T2500, NoDuration),
    Args(EVT001, NoText, NoText, NoDuration),
    Args(evt004, D0224, T9_5, NoDuration),
    Args(EVT009, D0224, T1015, NoDuration) }

DeleteArgs ==
  { Args(EVT003, NoText, NoText, NoDuration),
    Args(evt004, NoText, NoText, NoDuration),
    Args(EVT009, NoText, NoText, NoDuration) }

ListArgs ==
  { Args(NoText, D0223, NoText, NoDuration),
    Args(NoText, D0224, NoText, NoDuration) }

CheckArgs ==
  { Args(NoText, D0223, T0930, IntArg(30)),
    Args(NoText, D0223, T1015, IntArg(30)),
    Args(NoText, D0223, T1030, IntArg(15)),
    Args(NoText, D0224, T1015, IntArg(30)),
    Args(NoText, D0223, T2500, IntArg(30)) }

Titles == {"Lunch"}

Descriptions == {""}

\* successful create_event calls followed in one behaviour
MaxCreates == 2

---------------------------------------------------------------------------
(* The store under direct calls of the five operations                     *)

NoCall == [op |-> "none", args |-> Args(NoText, NoText, NoText, NoDuration)]

Call(op, args) == [op |-> op, args |-> args]

SystemMessage ==
  [role |-> "system", content |-> "prompt", tool_calls |-> <<>>,
   tool_call_id |-> "", result |-> NoResult]

\* init_calendar on a connected database with nothing persisted: the dict
\* is the default calendar and the database is seeded with it; and
\* create_chat_session
Init ==
  /\ default_calendar = DEFAULT_CALENDAR
  /\ \E r \in {init_calendar(NoSession, <<>>, DEFAULT_CALENDAR,
                             _load_from_db({}, TRUE))} :
       /\ calendar = r.calendar
       /\ session_state = r.session
  /\ result = NoResult
  /\ last = NoCall
  /\ created = <<>>
  /\ chat_history = <<SystemMessage>>
  /\ pc = "idle"
  /\ iteration = 0
  /\ pending = <<>>
  /\ reply = ""
  /\ model_calls = 0
  /\ executed = <<>>
  /\ scripted = 0
  /\ collection = _seed_db({}, DEFAULT_CALENDAR)
  /\ deleted = {}

\* the tool functions change the dict they are given in place: when the
\* session's dict is the module's object, it is the module's dict that
\* has changed
Shared(cal) == IF session_state.same_object THEN cal ELSE default_calendar

Created(r) == r.result.kind = "Event created successfully!"

Cancelled(r) == r.result.kind = "Event cancelled successfully!"

CreateEvent ==
  \E a \in CreateArgs, title \in Titles, description \in Descriptions :
    \E r \in {create_event(calendar, title, a.date, a.time,
                          a.duration_minutes, description)} :
        /\ Len(created) < MaxCreates
        /\ calendar' = r.calendar
        /\ default_calendar' = Shared(r.calendar)
        /\ UNCHANGED session_state
        /\ result' = r.result
        /\ last' = Call("create_event", a)
        /\ created' = IF Created(r) THEN Append(created, r.result.id)
                      ELSE created
        /\ UNCHANGED <<chatVars, collection, deleted>>

ListEvents ==
  \E a \in ListArgs :
    \E r \in {list_events(calendar, a.date)} :
        /\ calendar' = r.calendar
        /\ default_calendar' = Shared(r.calendar)
        /\ UNCHANGED session_state
        /\ result' = r.result
        /\ last' = Call("list_events", a)
        /\ UNCHANGED <<created, chatVars, collection, deleted>>

CheckAvailability ==
  \E a \in CheckArgs :
    \E r \in {check_availability(calendar, a.date, a.time, a.duration_minutes)} :
        /\ calendar' = r.calendar
        /\ default_calendar' = Shared(r.calendar)
        /\ UNCHANGED session_state
        /\ result' = r.result
        /\ last' = Call("check_availability", a)
        /\ UNCHANGED <<created, chatVars, collection, deleted>>

UpdateEvent ==
  \E a \in UpdateArgs :
    \E r \in {update_event(calendar, a.event_id, a.date, a.time)} :
        /\ calendar' = r.calendar
        /\ default_calendar' = Shared(r.calendar)
        /\ UNCHANGED session_state
        /\ result' = r.result
        /\ last' = Call("update_event", a)
        /\ UNCHANGED <<created, chatVars, collection, deleted>>

DeleteEvent ==
  \E a \in DeleteArgs :
    \E r \in {delete_event(calendar, a.event_id)} :
        /\ calendar' = r.calendar
        /\ default_calendar' = Shared(r.calendar)
        /\ UNCHANGED session_state
        /\ result' = r.result
        /\ last' = Call("delete_event", a)
        /\ deleted' = IF Cancelled(r) THEN deleted \cup {r.result.id}
                      ELSE deleted
        /\ UNCHANGED <<created, chatVars, collection>>

Next ==
  \/ CreateEvent
  \/ ListEvents
  \/ CheckAvailability
  \/ UpdateEvent
  \/ DeleteEvent

Spec == Init /\ [][Next]_vars

\* delete_event called with any id of the dict
DeleteAnyEvent ==
  \E id \in Keys(calendar) :
    \E r \in {delete_event(calendar, id)} :
        /\ calendar' = r.calendar
        /\ default_calendar' = Shared(r.calendar)
        /\ UNCHANGED session_state
        /\ result' = r.result
        /\ last' = Call("delete_event", Args(id, NoText, NoText, NoDuration))
        /\ deleted' = IF Cancelled(r) THEN deleted \cup {r.result.id}
                      ELSE deleted
        /\ UNCHANGED <<created, chatVars, collection>>

\* the ids allocated on the stores the creates and deletes reach, the
\* empty store among them
NextIds ==
  \/ CreateEvent
  \/ DeleteAnyEvent

SpecIds == Init /\ [][NextIds]_vars

\* app.py calls init_calendar on the session_state of a session that
\* begins, with a store of its own; the database may be unavailable at the
\* read and at the seeding
NewSession ==
  \E loads, seeds \in BOOLEAN :
    \E r \in {init_calendar(NoSession, <<>>, default_calendar,
                            _load_from_db(collection, loads))} :
        /\ calendar' = r.calendar
        /\ session_state' = r.session
        /\ collection' = IF r.seeded /\ seeds
                         THEN _seed_db(collection, r.calendar)
                         ELSE collection
        /\ last' = Call("init_calendar", Args(NoText, NoText, NoText, NoDuration))
        /\ created' = <<>>
        /\ deleted' = {}
        /\ UNCHANGED <<default_calendar, result, chatVars>>

\* app.py calls init_calendar again in the session, on every rerun
InitCalendar ==
  \E loads \in BOOLEAN :
    \E r \in {init_calendar(session_state, calendar, default_calendar,
                            _load_from_db(collection, loads))} :
        /\ calendar' = r.calendar
        /\ session_state' = r.session
        /\ last' = Call("init_calendar", Args(NoText, NoText, NoText, NoDuration))
        /\ UNCHANGED <<default_calendar, collection, result, created, deleted,
                       chatVars>>

\* sessions one after another in one process, each changing its calendar
NextSessions ==
  \/ NewSession
  \/ InitCalendar
  \/ CreateEvent
  \/ UpdateEvent
  \/ DeleteEvent

SpecSessions == Init /\ [][NextSessions]_vars

---------------------------------------------------------------------------
(* The tool-calling loop: groq_client.py                                   *)

max_iterations == 10

TOOL_MAP ==
  {"create_event", "list_events", "check_availability", "update_event",
   "delete_event"}

\* the parameters of each tool function after calendar: those without a
\* default and those with one
Parameters(fn_name) ==
  CASE fn_name = "create_event" ->
         [required |-> {"title", "date", "time", "duration_minutes"},
          optional |-> {"description"}]
    [] fn_name = "list_events" ->
         [required |-> {"date"}, optional |-> {}]
    [] fn_name = "check_availability" ->
         [required |-> {"date", "time", "duration_minutes"}, optional |-> {}]
    [] fn_name = "update_event" ->
         [required |-> {"event_id"}, optional |-> {"new_date", "new_time"}]
    [] fn_name = "delete_event" ->
         [required |-> {"event_id"}, optional |-> {}]

\* tool_call.function.arguments: text that is not JSON, JSON that is no
\* object, or a JSON object (a record of the keys it holds)
InvalidJson == [json |-> "invalid", obj |-> [none |-> 0]]
JsonNull == [json |-> "null", obj |-> [none |-> 0]]
JsonObject(obj) == [json |-> "object", obj |-> obj]

\* f(calendar, **fn_args) binds: no key the function does not take, every
\* parameter without a default given; otherwise the call raises TypeError
Binds(fn_name, obj) ==
  /\ Parameters(fn_name).required \subseteq DOMAIN obj
  /\ DOMAIN obj \subseteq
       Parameters(fn_name).required \cup Parameters(fn_name).optional

Given(obj, key, default) == IF key \in DOMAIN obj THEN obj[key] ELSE default

\* tool_fn(calendar, **fn_args), the call having bound
Apply(cal, fn_name, obj) ==
  CASE fn_name = "create_event" ->
         create_event(cal, obj.title, obj.date, obj.time, obj.duration_minutes,
                      Given(obj, "description", ""))
    [] fn_name = "list_events" -> list_events(cal, obj.date)
    [] fn_name = "check_availability" ->
         check_availability(cal, obj.date, obj.time, obj.duration_minutes)
    [] fn_name = "update_event" ->
         update_event(cal, obj.event_id, Given(obj, "new_date", NoText),
                      Given(obj, "new_time", NoText))
    [] fn_name = "delete_event" -> delete_event(cal, obj.event_id)

UnknownTool == Failure("Unknown tool")

Raised(cal) == [raised |-> TRUE, calendar |-> cal, result |-> NoResult]

Returned(r) == [raised |-> FALSE, calendar |-> r.calendar, result |-> r.result]

\* the body of the loop over assistant_msg.tool_calls up to the result:
\* json.loads, then the dispatch on the name
RunToolCall(cal, tool_call) ==
  IF tool_call.arguments.json = "invalid" THEN Raised(cal)
  ELSE IF tool_call.name \in TOOL_MAP
       THEN IF /\ tool_call.arguments.json = "object"
               /\ Binds(tool_call.name, tool_call.arguments.obj)
            THEN Returned(Apply(cal, tool_call.name, tool_call.arguments.obj))
            ELSE Raised(cal)
       ELSE Returned([calendar |-> cal, result |-> UnknownTool])

DefaultReply == "I processed your request."

Message(role, content, tool_calls, tool_call_id, res) ==
  [role |-> role, content |-> content, tool_calls |-> tool_calls,
   tool_call_id |-> tool_call_id, result |-> res]

UserMessage(text) == Message("user", text, <<>>, "", NoResult)

\* the content of the response appended as it came
AssistantContent(text) ==
  Message("assistant", IF text = DefaultReply THEN "" ELSE text, <<>>, "",
          NoResult)

AssistantText(text) == Message("assistant", text, <<>>, "", NoResult)

AssistantToolCalls(tool_calls) ==
  Message("assistant", "", tool_calls, "", NoResult)

\* a result message tagged with the name of the function
ToolMessageByName(tool_call, res) ==
  Message("tool", res.kind, <<>>, tool_call.name, res)

ToolMessage(tool_call, res) ==
  Message("tool", res.kind, <<>>, tool_call.id, res)

CapMessage ==
  "I'm sorry, I had trouble processing that request. Please try again."

Apology ==
  "I'm sorry, I encountered an error while processing your request."

\* no handler: the exception leaves process_chat
Uncaught == [pc |-> "raised", reply |-> ""]

\* except Exception: the apology is returned
Caught == [pc |-> "returned", reply |-> Apology]

---------------------------------------------------------------------------
(* The model and the user                                                  *)

ToolCall(id, name, arguments) ==
  [id |-> id, name |-> name, arguments |-> arguments]

ListArguments == JsonObject([date |-> D0223])

CreateArguments ==
  JsonObject([title |-> "Lunch", date |-> D0223, time |-> T0930,
              duration_minutes |-> IntArg(120)])

\* duration_minutes is not positive
ZeroDurationArguments ==
  JsonObject([title |-> "Lunch", date |-> D0223, time |-> T0930,
              duration_minutes |-> IntArg(0), description |-> ""])

\* the date does not parse
BadDateArguments ==
  JsonObject([title |-> "Lunch", date |-> D0230, time |-> T0930,
              duration_minutes |-> IntArg(30)])

\* the required duration_minutes is missing
MissingFieldArguments ==
  JsonObject([title |-> "Lunch", date |-> D0223, time |-> T0930])

\* update_event takes no title
ExtraFieldArguments ==
  JsonObject([event_id |-> EVT001, new_time |-> T1015, title |-> "Lunch"])

DeleteArguments == JsonObject([event_id |-> evt004])

\* the responses with tool calls the model chooses among, each the list
\* assistant_msg.tool_calls
ToolResponses ==
  { <<ToolCall("call_1", "list_events", ListArguments)>>,
    <<ToolCall("call_1", "send_email", JsonNull),
      ToolCall("call_2", "create_event", CreateArguments)>>,
    <<ToolCall("call_1", "create_event", CreateArguments),
      ToolCall("call_2", "delete_event", DeleteArguments)>>,
    <<ToolCall("call_1", "create_event", BadDateArguments)>>,
    <<ToolCall("call_1", "create_event", ZeroDurationArguments)>>,
    <<ToolCall("call_1", "create_event", MissingFieldArguments)>>,
    <<ToolCall("call_1", "list_events", ListArguments),
      ToolCall("call_2", "update_event", ExtraFieldArguments)>>,
    <<ToolCall("call_1", "send_email", InvalidJson)>>,
    <<ToolCall("call_1", "delete_event", JsonNull)>> }

\* what the model goes on answering once its free choices are used up
RepeatedResponse == <<ToolCall("call_1", "list_events", ListArguments)>>

\* assistant_msg.content of a response without tool calls
Contents == {"Done.", ""}

UserMessages == {"hello"}

\* responses the model chooses freely in one session
MaxScripted == 2

\* calls of process_chat in one session
MaxTurns == 1

Turns == Cardinality({k \in 1..Len(chat_history) : chat_history[k].role = "user"})

---------------------------------------------------------------------------
(* process_chat, from one call of the model or of a tool to the next       *)

\* fn_args as the tool function received them, for the record of the call
ArgsOf(tool_call) ==
  LET obj == tool_call.arguments.obj
  IN  Args(Given(obj, "event_id", NoText),
           Given(obj, "date", Given(obj, "new_date", NoText)),
           Given(obj, "time", Given(obj, "new_time", NoText)),
           Given(obj, "duration_minutes", NoDuration))

\* process_chat is called: the user message is appended
ProcessChat ==
  \E user_message \in UserMessages :
    /\ pc = "idle"
    /\ Turns < MaxTurns
    /\ chat_history' = Append(chat_history, UserMessage(user_message))
    /\ pc' = "call_model"
    /\ iteration' = 0
    /\ pending' = <<>>
    /\ reply' = ""
    /\ model_calls' = 0
    /\ executed' = <<>>
    /\ UNCHANGED <<scripted, storeVars>>

\* client.chat.completions.create raises
ModelRaises ==
  /\ pc = "call_model"
  /\ model_calls' = model_calls + 1
  /\ pc' = Caught.pc
  /\ reply' = Caught.reply
  /\ UNCHANGED <<chat_history, iteration, pending, executed, scripted,
                 storeVars>>

\* the response has no tool calls: the final text
ModelAnswers ==
  \E content \in Contents :
    /\ pc = "call_model"
    /\ model_calls' = model_calls + 1
    /\ reply' = IF content # "" THEN content ELSE DefaultReply
    /\ chat_history' = Append(chat_history, AssistantText(reply'))
    /\ pc' = "returned"
    /\ UNCHANGED <<iteration, pending, executed, scripted, storeVars>>

\* the response has tool calls: the assistant message is appended
ModelRequestsTools ==
  \E tool_calls \in ToolResponses \cup {RepeatedResponse} :
    /\ pc = "call_model"
    /\ IF scripted < MaxScripted
       THEN tool_calls \in ToolResponses /\ scripted' = scripted + 1
       ELSE tool_calls = RepeatedResponse /\ scripted' = scripted
    /\ model_calls' = model_calls + 1
    /\ chat_history' = Append(chat_history, AssistantToolCalls(tool_calls))
    /\ pending' = tool_calls
    /\ pc' = "executing_tools"
    /\ UNCHANGED <<iteration, reply, executed, storeVars>>

\* one pass of the loop over the tool calls; after the last one the outer
\* loop goes on, or is exhausted and the cap message is returned
ExecuteToolCall ==
  /\ pc = "executing_tools"
  /\ pending # <<>>
  /\ \E tool_call \in {Head(pending)} :
     \E out \in {RunToolCall(calendar, tool_call)} :
         IF out.raised
         THEN /\ pc' = Caught.pc
              /\ reply' = Caught.reply
              /\ UNCHANGED <<chat_history, iteration, pending, executed,
                             storeVars>>
         ELSE /\ calendar' = out.calendar
              /\ default_calendar' = Shared(out.calendar)
              /\ UNCHANGED session_state
              /\ result' = out.result
              /\ last' = Call(tool_call.name, ArgsOf(tool_call))
              /\ created' = IF out.result.kind = "Event created successfully!"
                            THEN Append(created, out.result.id) ELSE created
              /\ deleted' = IF Cancelled(out) THEN deleted \cup {out.result.id}
                            ELSE deleted
              /\ UNCHANGED collection
              /\ executed' = Append(executed, tool_call.id)
              /\ chat_history' =
                   Append(chat_history, ToolMessage(tool_call, out.result))
              /\ pending' = Tail(pending)
              /\ IF Tail(pending) # <<>>
                 THEN UNCHANGED <<pc, iteration, reply>>
                 ELSE /\ iteration' = iteration + 1
                      /\ IF iteration + 1 < max_iterations
                         THEN pc' = "call_model" /\ UNCHANGED reply
                         ELSE pc' = "returned" /\ reply' = CapMessage
  /\ UNCHANGED <<model_calls, scripted>>

\* the reply is handed to the caller, which may call again
Return ==
  /\ pc = "returned"
  /\ pc' = "idle"
  /\ UNCHANGED <<chat_history, iteration, pending, reply, model_calls,
                 executed, scripted, storeVars>>

NextChat ==
  \/ ProcessChat
  \/ ModelRaises
  \/ ModelAnswers
  \/ ModelRequestsTools
  \/ ExecuteToolCall
  \/ Return

SpecChat == Init /\ [][NextChat]_vars

\* what every ExecuteToolCall step does to pc and pending: the tool call
\* leaves pending, or its exception leaves the loop
ToolCallEnds ==
  /\ pc = "executing_tools"
  /\ pending # <<>>
  /\ \/ pending' = Tail(pending) /\ pc' \in {"executing_tools", "call_model",
                                            "returned"}
     \/ pending' = pending /\ pc' = "returned"

\* the model call and each tool call come back, and the caller takes the
\* reply.  ExecuteToolCall is enabled whenever a tool call is pending and
\* its steps are the ToolCallEnds steps, on which its fairness is stated.
FairSpecChat ==
  /\ SpecChat
  /\ WF_vars(ModelRaises \/ ModelAnswers \/ ModelRequestsTools)
  /\ WF_<<pc, pending>>(ToolCallEnds)
  /\ WF_vars(Return)

---------------------------------------------------------------------------
(* Properties of the store and of the tool functions                       *)

\* the numeric suffix of an id
Suffix(id) == DecVal(SubSeq(id, Len(EVT) + 1, Len(id)))

\* a stored time of day, in minutes
Minutes(text) == StrptimeHM(text)

\* end_time minus start_time, in minutes
LengthOf(e) == Minutes(e.end_time) - Minutes(e.start_time)

\* C1: the ids allocated by successive successful create_event calls on
\* one store, update_event and delete_event calls between them or not, are
\* pairwise distinct and strictly increasing in numeric suffix.
C1_CreatedIdsIncrease ==
  \A i, j \in 1..Len(created) :
    i < j => Suffix(created[i]) < Suffix(created[j])

\* C7: every stored event has end_time strictly after start_time.
C7_EndAfterStart ==
  \A i \in 1..Len(calendar) :
    Minutes(calendar[i].start_time) < Minutes(calendar[i].end_time)

\* C8: after a successful update_event with a non-empty new_time the
\* event starts at new_time and has the length it had before the update.
C8_UpdateKeepsLength ==
  [][ ( /\ last'.op = "update_event"
        /\ result'.kind = "updated"
        /\ last'.args.time # NoText )
      => LET id == Upper(last'.args.event_id)
         IN  /\ Minutes(Get(calendar', id).start_time)
                  = Minutes(last'.args.time)
             /\ LengthOf(Get(calendar', id)) = LengthOf(Get(calendar, id))
    ]_vars

\* the request of the last check_availability call, in minutes from the
\* midnight of its date
RequestStart == Minutes(last.args.time)
RequestEnd == RequestStart + last.args.duration_minutes.int

\* the stored events whose half-open interval [start, end) meets the
\* requested one on the requested date
OverlappingIds ==
  { calendar[i].id : i \in
      { k \in 1..Len(calendar) :
          /\ calendar[k].date = last.args.date
          /\ RequestStart < Minutes(calendar[k].end_time)
          /\ Minutes(calendar[k].start_time) < RequestEnd } }

\* the stored events that meet the requested interval at an endpoint only
TouchingIds ==
  { calendar[i].id : i \in
      { k \in 1..Len(calendar) :
          /\ calendar[k].date = last.args.date
          /\ \/ Minutes(calendar[k].end_time) = RequestStart
             \/ Minutes(calendar[k].start_time) = RequestEnd } }

ReportedIds == {result.items[i].id : i \in 1..Len(result.items)}

\* C9: check_availability reports busy exactly when a stored event on the
\* date overlaps [start, start + duration); the conflicts are exactly the
\* overlapping events, each once; an event that touches the interval at an
\* endpoint, or is on another date, is no conflict.
C9_BusyIffOverlap ==
  ( /\ last.op = "check_availability"
    /\ DateParses(last.args.date)
    /\ Minutes(last.args.time) # ParseError
    /\ last.args.duration_minutes.type = "int" )
  => /\ result.kind \in {"busy", "available"}
     /\ result.kind = "busy" <=> OverlappingIds # {}
     /\ ReportedIds = OverlappingIds
     /\ Len(result.items) = Cardinality(OverlappingIds)
     /\ ReportedIds \cap TouchingIds = {}
     /\ \A id \in ReportedIds : Get(calendar, id).date = last.args.date

\* a busy answer that leaves out an event ending where the request starts
\* and an event of the same hours on another date
C9_Witness ==
  /\ last.op = "check_availability"
  /\ result.kind = "busy"
  /\ TouchingIds # {}
  /\ \E i \in 1..Len(calendar) :
       /\ calendar[i].date # last.args.date
       /\ RequestStart < Minutes(calendar[i].end_time)
       /\ Minutes(calendar[i].start_time) < RequestEnd

\* C10: the conflicts of a busy answer are listed in ascending order of
\* their start_time, whatever the order of insertion.
C10_ConflictsAscending ==
  (last.op = "check_availability" /\ result.kind = "busy")
  => \A i, j \in 1..Len(result.items) :
       i < j => Minutes(Get(calendar, result.items[i].id).start_time)
                  <= Minutes(Get(calendar, result.items[j].id).start_time)

---------------------------------------------------------------------------
(* Properties of process_chat                                              *)

\* the index of the user message of the current turn
TurnStart ==
  SetMax({0} \cup {k \in 1..Len(chat_history) : chat_history[k].role = "user"})

\* the assistant messages of the current turn that carry tool calls
Requests(h) ==
  {k \in (TurnStart + 1)..Len(h) :
     h[k].role = "assistant" /\ h[k].tool_calls # <<>>}

\* the j-th tool call of message k has its result message in its place
Answered(h, k, j) ==
  /\ k + j <= Len(h)
  /\ h[k + j].role = "tool"
  /\ h[k + j].tool_call_id = h[k].tool_calls[j].id

AllAnswered(h) ==
  \A k \in Requests(h) : \A j \in 1..Len(h[k].tool_calls) : Answered(h, k, j)

FailureKinds ==
  {"Error creating event", "Error listing events",
   "Error checking availability", "Error updating event",
   "Error deleting event", "not found", "Unknown tool"}

\* the arguments of a tool call are malformed: no JSON object, not the
\* parameters of the function, a date or time that does not parse, a
\* duration that is not positive
Malformed(tool_call) ==
  LET obj == tool_call.arguments.obj
  IN  \/ tool_call.arguments.json # "object"
      \/ tool_call.name \in TOOL_MAP /\ ~Binds(tool_call.name, obj)
      \/ "date" \in DOMAIN obj /\ ~DateParses(obj.date)
      \/ "time" \in DOMAIN obj /\ StrptimeHM(obj.time) = ParseError
      \/ /\ "duration_minutes" \in DOMAIN obj
         /\ ~IntOf(obj.duration_minutes).ok \/ IntOf(obj.duration_minutes).val <= 0

\* C2: process_chat makes at most max_iterations model calls in a turn, and
\* when the model answers every call with tool invocations it returns the
\* cap message after exactly max_iterations calls.
C2_CapAfterTenCalls ==
  /\ model_calls <= max_iterations
  /\ ( /\ pc = "returned"
       /\ model_calls > 0
       /\ Cardinality(Requests(chat_history)) = model_calls )
     => reply = CapMessage /\ model_calls = max_iterations

\* C3: every tool invocation the model requests, one with malformed
\* arguments included, gets a result message in the history, a failure
\* result when the arguments are malformed, and the loop goes on.
C3_MalformedCallsAnswered ==
  pc # "executing_tools" =>
    \A k \in Requests(chat_history) :
      \A j \in 1..Len(chat_history[k].tool_calls) :
        /\ Answered(chat_history, k, j)
        /\ Malformed(chat_history[k].tool_calls[j])
             => chat_history[k + j].result.kind \in FailureKinds

\* C4: an invocation of a name outside TOOL_MAP gets an "Unknown tool"
\* result tagged with its identifier, the invocations after it are
\* executed and the model is called again; the calendar is not touched.
C4_UnknownToolAnswered ==
  /\ [](pc # "executing_tools" =>
         \A k \in Requests(chat_history) :
           \A j \in 1..Len(chat_history[k].tool_calls) :
             chat_history[k].tool_calls[j].name \notin TOOL_MAP =>
               /\ Answered(chat_history, k, j)
               /\ chat_history[k + j].result.kind = "Unknown tool"
               /\ \A i \in j..Len(chat_history[k].tool_calls) :
                    Answered(chat_history, k, i)
               /\ pc = "returned" =>
                    model_calls >
                      Cardinality({r \in Requests(chat_history) : r <= k}))
  /\ [][ ( /\ Len(executed') > Len(executed)
           /\ Head(pending).name \notin TOOL_MAP )
         => calendar' = calendar ]_vars

DisplayStrings ==
  (Contents \ {""}) \cup {DefaultReply, CapMessage, Apology}

\* C5: every call of process_chat ends, and ends by returning a display
\* string: the final answer, the cap message or the apology; no error
\* leaves process_chat, and no model call follows the return.
C5_AlwaysReturnsText ==
  /\ [](pc \in {"idle", "call_model", "executing_tools", "returned"})
  /\ [](pc = "returned" => reply \in DisplayStrings)
  /\ [][pc = "returned" => model_calls' = model_calls]_vars
  /\ (pc \in {"call_model", "executing_tools"}) ~> (pc = "returned")

\* the dispatch of the second tool call of a response raised
C5_Witness ==
  /\ pc = "returned"
  /\ reply = Apology
  /\ chat_history[Len(chat_history)].role = "tool"
  /\ ~AllAnswered(chat_history)

\* the last assistant message with tool calls
LastRequest(h) == SetMax({0} \cup Requests(h))

\* C6: in a turn the assistant message with the tool calls is in the
\* history before any of them is executed; they are executed one at a
\* time in the order listed, each followed by one result message with its
\* identifier; the model is called again only when all have their result.
C6_ResultsInOrder ==
  /\ [](pc = "executing_tools" =>
         LET k == LastRequest(chat_history)
             tool_calls == chat_history[k].tool_calls
             n == Len(chat_history) - k
         IN  /\ k > 0
             /\ n < Len(tool_calls)
             /\ pending = SubSeq(tool_calls, n + 1, Len(tool_calls))
             /\ \A j \in 1..n : Answered(chat_history, k, j))
  /\ [][ Len(executed') > Len(executed) =>
           LET k == LastRequest(chat_history)
               n == Len(chat_history) - k
               tool_call == chat_history[k].tool_calls[n + 1]
           IN  /\ pc = "executing_tools"
               /\ executed' = Append(executed, tool_call.id)
               /\ Len(chat_history') = Len(chat_history) + 1
               /\ SubSeq(chat_history', 1, Len(chat_history)) = chat_history
               /\ Answered(chat_history', k, n + 1) ]_vars
  /\ [][ model_calls' = model_calls + 1 => AllAnswered(chat_history) ]_vars

\* two tool calls of one response executed, the model about to be called
C6_Witness ==
  /\ pc = "call_model"
  /\ iteration = 1
  /\ Len(executed) = 2
  /\ chat_history[Len(chat_history)].tool_call_id = "call_2"
  /\ chat_history[Len(chat_history) - 1].tool_call_id = "call_1"

---------------------------------------------------------------------------
(* Persistence, and the results of create_event                            *)

Mutations == {"create_event", "update_event", "delete_event"}

Successes ==
  {"Event created successfully!", "updated", "Event cancelled successfully!"}

\* C11: after every successful create_event, update_event and delete_event
\* sync_to_db has been called with the whole dict, so the persisted events
\* are the events of the dict.
C11_PersistedFollowsStore ==
  (last.op \in Mutations /\ result.kind \in Successes)
  => /\ collection = sync_to_db(collection, calendar)
     /\ collection = Documents(calendar)

\* the arguments of a create_event call meet the constraints: the date and
\* the time parse and duration_minutes is a positive number
ValidCreate(args) ==
  /\ DateParses(args.date)
  /\ StrptimeHM(args.time) # ParseError
  /\ IntOf(args.duration_minutes).ok
  /\ IntOf(args.duration_minutes).val > 0

\* C12: create_event with duration_minutes <= 0, a time that does not
\* parse or a date that does not parse returns a failure and leaves the
\* store unchanged.
C12_InvalidCreateRejected ==
  [][ (last'.op = "create_event" /\ ~ValidCreate(last'.args))
      => /\ result'.kind = "Error creating event"
         /\ calendar' = calendar ]_vars

\* the ids of the lines of a listing
ListedIds(r) == {r.result.items[i].id : i \in 1..Len(r.result.items)}

\* C13: for valid create_event inputs the event is stored under a newly
\* allocated id, its end_time is start_time + duration_minutes, and
\* list_events of its date includes the id.
C13_CreateStoresEnd ==
  /\ []( (last.op = "create_event" /\ ValidCreate(last.args))
         => /\ result.kind = "Event created successfully!"
            /\ HasKey(calendar, result.id)
            /\ LET e == Get(calendar, result.id)
               IN  /\ e.date = last.args.date
                   /\ Minutes(e.start_time) = Minutes(last.args.time)
                   /\ Minutes(e.end_time)
                        = Minutes(e.start_time)
                            + IntOf(last.args.duration_minutes).val
            /\ result.id \in ListedIds(list_events(calendar, last.args.date)) )
  /\ [][ Len(created') > Len(created)
         => created'[Len(created')] \notin Keys(calendar) ]_vars

---------------------------------------------------------------------------
(* delete_event, update_event, list_events and the allocation of ids       *)

\* the id a delete_event or update_event call looks up
LookedUp(call) == Upper(call.args.event_id)

\* C14: delete_event with an id that is not in the store returns the
\* not-found failure and leaves the store unchanged; so does the repeat of
\* a delete that succeeded.
C14_DeleteMissingFails ==
  /\ [][ (last'.op = "delete_event" /\ ~HasKey(calendar, LookedUp(last')))
         => /\ result'.kind = "not found"
            /\ calendar' = calendar ]_vars
  /\ []( (last.op = "delete_event"
            /\ result.kind = "Event cancelled successfully!")
         => LET again == delete_event(calendar, last.args.event_id)
            IN  /\ again.result.kind = "not found"
                /\ again.calendar = calendar )

\* the delete of an id is repeated after it succeeded once
C14_Witness ==
  /\ last.op = "delete_event"
  /\ result.kind = "not found"
  /\ LookedUp(last) \in deleted
  /\ Len(calendar) >= Len(DEFAULT_CALENDAR) - 1

\* C15: delete_event with an id that is in the store removes exactly that
\* id and reports the removed record's title, date and times; every other
\* event is unchanged; the id is in no later listing and never again in the
\* store.
C15_DeleteRemovesId ==
  /\ [][ (last'.op = "delete_event" /\ HasKey(calendar, LookedUp(last')))
         => LET id == LookedUp(last')
                evt == Get(calendar, id)
            IN  /\ result'.kind = "Event cancelled successfully!"
                /\ result'.id = id
                /\ result'.title = evt.title
                /\ result'.date = evt.date
                /\ result'.start = StrftimeIMp(Minutes(evt.start_time))
                /\ result'.end = StrftimeIMp(Minutes(evt.end_time))
                /\ Keys(calendar') = Keys(calendar) \ {id}
                /\ \A k \in Keys(calendar') :
                     Get(calendar', k) = Get(calendar, k)
                /\ id \notin ListedIds(list_events(calendar', evt.date)) ]_vars
  /\ [](\A id \in deleted :
          /\ ~HasKey(calendar, id)
          /\ last.op = "list_events" => id \notin ReportedIds)

\* C16: update_event with only new_date leaves start_time and end_time of
\* the event unchanged, and with only new_time leaves its date unchanged.
C16_UpdateLeavesOtherField ==
  [][ (last'.op = "update_event" /\ HasKey(calendar, LookedUp(last')))
      => LET before == Get(calendar, LookedUp(last'))
             after == Get(calendar', LookedUp(last'))
         IN  /\ HasKey(calendar', LookedUp(last'))
             /\ (last'.args.date # NoText /\ last'.args.time = NoText)
                  => /\ after.start_time = before.start_time
                     /\ after.end_time = before.end_time
             /\ (last'.args.date = NoText /\ last'.args.time # NoText)
                  => after.date = before.date ]_vars

\* an update of the time alone on an event whose date alone was updated
C16_Witness ==
  /\ last.op = "update_event"
  /\ result.kind = "updated"
  /\ last.args.date = NoText
  /\ last.args.time = T2330
  /\ Get(calendar, EVT001).date = D0224
  /\ Get(calendar, EVT001).start_time = T2330

\* the places in the dict of the events of the listed date
Matching == {i \in 1..Len(calendar) : calendar[i].date = last.args.date}

\* C17: list_events returns exactly the stored events of the date, in
\* ascending start_time order whatever the order of insertion, events of
\* equal start_time in insertion order; with no event of the date it
\* returns the no-events result, not an error.
C17_ListedInStartOrder ==
  last.op = "list_events" =>
    IF Matching = {}
    THEN result.kind = "No events found" /\ result.items = <<>>
    ELSE /\ result.kind = "Events on"
         /\ Len(result.items) = Cardinality(Matching)
         /\ ReportedIds = {calendar[i].id : i \in Matching}
         /\ \A i, j \in 1..Len(result.items) :
              i < j =>
                LET a == Get(calendar, result.items[i].id)
                    b == Get(calendar, result.items[j].id)
                IN  \/ Minutes(a.start_time) < Minutes(b.start_time)
                    \/ /\ Minutes(a.start_time) = Minutes(b.start_time)
                       /\ IndexOf(calendar, a.id) < IndexOf(calendar, b.id)

\* a listing with two events of one start_time, placed before an event
\* that was inserted before them
C17_Witness ==
  /\ last.op = "list_events"
  /\ result.kind = "Events on"
  /\ \E i, j \in 1..Len(result.items) :
       /\ i < j
       /\ Get(calendar, result.items[i].id).start_time
            = Get(calendar, result.items[j].id).start_time
  /\ \E i, j \in 1..Len(result.items) :
       /\ i < j
       /\ IndexOf(calendar, result.items[i].id)
            > IndexOf(calendar, result.items[j].id)

\* C18: get_next_event_id depends on the contents of the store alone: it
\* is EVT001 for the empty store, otherwise EVT and the largest numeric
\* suffix present plus one in at least 3 digits; it is never a key of the
\* store.
C18_NextIdIsNew ==
  /\ [](LET next == get_next_event_id(calendar)
        IN  /\ next.ok
            /\ next.id \notin Keys(calendar)
            /\ SubSeq(next.id, 1, Len(EVT)) = EVT
            /\ Len(next.id) >= Len(EVT) + 3
            /\ Len(next.id) > Len(EVT) + 3 => next.id[Len(EVT) + 1] # "0"
            /\ IF calendar = <<>> THEN next.id = EVT001
               ELSE Suffix(next.id)
                      = 1 + SetMax({Suffix(k) : k \in Keys(calendar)}))
  /\ [][ Len(created') > Len(created)
         => created'[Len(created')] = get_next_event_id(calendar).id ]_vars

\* the store was emptied and the next create_event was given EVT001
C18_Witness ==
  /\ Keys(calendar) = {EVT001}
  /\ created # <<>>
  /\ created[Len(created)] = EVT001

\* C19: the date of every stored event is a valid calendar date in
\* YYYY-MM-DD form.
C19_StoredDatesParse ==
  \A i \in 1..Len(calendar) : DateParses(calendar[i].date)

---------------------------------------------------------------------------
(* The final answer of process_chat                                        *)

\* the step on a model response without tool invocations
FinalAnswer ==
  /\ pc = "call_model"
  /\ pc' = "returned"
  /\ Len(chat_history') = Len(chat_history) + 1

\* the message a step appended to the history
Appended == chat_history'[Len(chat_history')]

\* C20 as stated: on a response without tool invocations the text of the
\* response is appended as one assistant message and the same text is
\* returned, with no further model call and no calendar operation.
C20_ResponseTextReturned ==
  [][ FinalAnswer
      => /\ SubSeq(chat_history', 1, Len(chat_history)) = chat_history
         /\ Appended.role = "assistant"
         /\ Appended.tool_calls = <<>>
         /\ \E content \in Contents :
              Appended.content = content /\ reply' = content
         /\ calendar' = calendar /\ executed' = executed ]_vars

\* C20: on a response without tool invocations one assistant message is
\* appended and its text is returned: the text of the response, or the
\* default reply when the response has no text; no model call and no
\* calendar operation follows in the turn.
C20_FinalAnswerEndsTurn ==
  /\ [][ FinalAnswer
         => /\ SubSeq(chat_history', 1, Len(chat_history)) = chat_history
            /\ Appended.role = "assistant"
            /\ Appended.tool_calls = <<>>
            /\ Appended.content = reply'
            /\ reply' \in (Contents \ {""}) \cup {DefaultReply}
            /\ model_calls' = model_calls + 1
            /\ calendar' = calendar /\ executed' = executed ]_vars
  /\ [][ pc = "returned"
         => /\ model_calls' = model_calls
            /\ chat_history' = chat_history
            /\ calendar' = calendar /\ executed' = executed ]_vars

\* a response without text, after a round of tool calls: the default reply
C20_Witness ==
  /\ pc = "returned"
  /\ reply = DefaultReply
  /\ iteration = 1
  /\ chat_history[Len(chat_history)].role = "assistant"
  /\ chat_history[Len(chat_history)].content = DefaultReply

---------------------------------------------------------------------------
(* The lookup of ids, and what the operations leave alone                  *)

\* a lower-case letter and its upper-case letter
CasePairs == {<<"e", "E">>, <<"v", "V">>, <<"t", "T">>}

\* the stored id is the given id but for the case of letters
SameButCase(given, stored) ==
  /\ Len(given) = Len(stored)
  /\ \A i \in 1..Len(given) :
       given[i] = stored[i] \/ <<given[i], stored[i]>> \in CasePairs

\* the stored ids the id of a call matches
Targets(call) ==
  {k \in Keys(calendar) : SameButCase(call.args.event_id, k)}

\* C21: update_event and delete_event look the id up without regard to
\* letter case: an id that differs from a stored id in case only acts on
\* that event; an id that matches no stored event gets the not-found
\* failure naming the id, and the store is unchanged.
C21_LookupIgnoresCase ==
  [][ last'.op \in {"update_event", "delete_event"}
      => IF Targets(last') = {}
         THEN /\ result'.kind = "not found"
              /\ SameButCase(last'.args.event_id, result'.id)
              /\ calendar' = calendar
         ELSE \A k \in Targets(last') :
                /\ result'.kind # "not found"
                /\ last'.op = "delete_event"
                     => ~HasKey(calendar', k) /\ result'.id = k
                /\ (last'.op = "update_event" /\ result'.kind = "updated")
                     => /\ result'.id = k
                        /\ last'.args.date # NoText
                             => Get(calendar', k).date = last'.args.date ]_vars

\* update_event was given an id in lower case and updated the event
C21_Witness ==
  /\ last.op = "update_event"
  /\ last.args.event_id = evt004
  /\ result.kind = "updated"
  /\ result.id = EVT004
  /\ Get(calendar, EVT004).date = D0224

\* C22: whenever update_event returns a failure, the id not found or the
\* new_time not parsing, the store is as it was before the call.
C22_UpdateAllOrNothing ==
  [][ ( /\ last'.op = "update_event"
        /\ result'.kind \in {"not found", "Error updating event"} )
      => calendar' = calendar ]_vars

\* C24: a successful update_event changes the date, start_time and
\* end_time of its event only: the ids of the store, the id, title and
\* description of the event and every other event are unchanged.
C24_UpdateChangesTimesOnly ==
  [][ (last'.op = "update_event" /\ result'.kind = "updated")
      => /\ Keys(calendar') = Keys(calendar)
         /\ Len(calendar') = Len(calendar)
         /\ HasKey(calendar, result'.id)
         /\ \A k \in Keys(calendar) :
              /\ Get(calendar', k).title = Get(calendar, k).title
              /\ Get(calendar', k).description = Get(calendar, k).description
              /\ k # result'.id => Get(calendar', k) = Get(calendar, k) ]_vars

\* an update of the time of an event that has a description, in a store
\* with a created event
C24_Witness ==
  /\ last.op = "update_event"
  /\ result.kind = "updated"
  /\ result.id = EVT001
  /\ last.args.time # NoText
  /\ Get(calendar, EVT001).description # ""
  /\ Get(calendar, EVT001).start_time = T2330
  /\ Len(calendar) > Len(DEFAULT_CALENDAR)

\* C25: list_events and check_availability leave the store as it was, for
\* every input, those that make them return an error included.
C25_ReadsLeaveStore ==
  [][ last'.op \in {"list_events", "check_availability"}
      => calendar' = calendar ]_vars

\* check_availability returned an error on a store with a created event
C25_Witness ==
  /\ last.op = "check_availability"
  /\ result.kind = "Error checking availability"
  /\ Len(calendar) > Len(DEFAULT_CALENDAR)

---------------------------------------------------------------------------
(* The history process_chat leaves                                         *)

\* the assistant messages of the history that carry tool calls
ToolRequests(h) ==
  {k \in 1..Len(h) : h[k].role = "assistant" /\ h[k].tool_calls # <<>>}

\* C23: whenever process_chat returns, every assistant message with tool
\* invocations is followed at once by one tool-result message per
\* invocation, in the order of the invocations, and by no further one.
C23_HistoryWellPaired ==
  pc = "returned" =>
    \A k \in ToolRequests(chat_history) :
      LET n == Len(chat_history[k].tool_calls)
      IN  /\ \A j \in 1..n : Answered(chat_history, k, j)
          /\ k + n + 1 <= Len(chat_history)
               => chat_history[k + n + 1].role # "tool"

---------------------------------------------------------------------------
(* The seed data and the sessions                                          *)

\* C26: no create, update or delete on a session's calendar changes
\* DEFAULT_CALENDAR; a session initialised without persisted data starts
\* from the three seed events; init_calendar called again in a session
\* that has a calendar returns that calendar as it is.
C26_SeedIsolated ==
  /\ [](default_calendar = DEFAULT_CALENDAR)
  /\ [][ (last'.op = "init_calendar" /\ session_state'.set_from = "deepcopy")
         => calendar' = DEFAULT_CALENDAR ]_vars
  /\ [][ ( /\ last'.op = "init_calendar"
           /\ session_state'.set_from = "session_state" )
         => calendar' = calendar ]_vars

\* a session that begins without persisted data, right after a session
\* deleted a seed event from its calendar
C26_Witness ==
  /\ last.op = "init_calendar"
  /\ session_state.set_from = "deepcopy"
  /\ result.kind = "Event cancelled successfully!"
  /\ result.id = EVT003
  /\ calendar = DEFAULT_CALENDAR

====
